---- MODULE Spec2Model ----
(***************************************************************************)
(* Model of the static-analysis report scripts of vertexnova/vnemath:      *)
(*   scripts/clang_tidy_analyzer.py, scripts/cppcheck_analyzer.py and      *)
(*   scripts/static_analyzer.py.                                           *)
(*                                                                         *)
(* Strings are sequences of tokens.  A token stands for the concrete text  *)
(* it spells ("error" is the five letters e-r-r-o-r, ":" a colon, " " a    *)
(* blank, "sup2" the character U+00B2).  No keyword or marker of the       *)
(* program can straddle two tokens, so substring search, split and strip   *)
(* on token sequences agree with the same operations on the text.          *)
(***************************************************************************)
EXTENDS Integers, Sequences, FiniteSets, TLC

\* ------------------------------------------------------------------------
\* Bounds of the model
\* ------------------------------------------------------------------------
\* number of lines of tool output the free-text scan reads
MaxLines == 3

\* ------------------------------------------------------------------------
\* Python str operations on token sequences
\* ------------------------------------------------------------------------
\* characters str.strip() removes
Whitespace == {" "}

\* characters for which str.isdigit() is true
DigitChars == {"0", "1", "2", "sup2"}

\* characters int() accepts in a decimal literal
DecimalChars == {"0", "1", "2"}

DigitVal(c) == CASE c = "0" -> 0 [] c = "1" -> 1 [] c = "2" -> 2 [] OTHER -> 0

RECURSIVE LStrip(_)
LStrip(s) == IF s # <<>> /\ Head(s) \in Whitespace THEN LStrip(Tail(s)) ELSE s

RECURSIVE RStrip(_)
RStrip(s) ==
  IF s # <<>> /\ s[Len(s)] \in Whitespace THEN RStrip(SubSeq(s, 1, Len(s) - 1)) ELSE s

\* str.strip()
Strip(s) == RStrip(LStrip(s))

\* str.find(sub) + 1: position of the leftmost occurrence of sub, 0 if none
Find(s, sub) ==
  LET hits == { i \in 1..(Len(s) - Len(sub) + 1) : SubSeq(s, i, i + Len(sub) - 1) = sub }
  IN  IF hits = {} THEN 0 ELSE CHOOSE i \in hits : \A j \in hits : i <= j

\* sub in s
Contains(s, sub) == Find(s, sub) # 0

\* s.startswith(p)
StartsWith(s, p) == Len(s) >= Len(p) /\ SubSeq(s, 1, Len(p)) = p

\* s.split(sep, maxsplit)
RECURSIVE Split(_, _, _)
Split(s, sep, maxsplit) ==
  LET i == Find(s, sep)
  IN  IF maxsplit = 0 \/ i = 0
      THEN <<s>>
      ELSE <<SubSeq(s, 1, i - 1)>> \o Split(SubSeq(s, i + Len(sep), Len(s)), sep, maxsplit - 1)

\* s.isdigit()
IsDigit(s) == s # <<>> /\ \A i \in 1..Len(s) : s[i] \in DigitChars

\* int(s) raises ValueError unless s is a decimal literal
IntRaises(s) == \E i \in 1..Len(s) : s[i] \notin DecimalChars

RECURSIVE IntOf(_)
IntOf(s) == IF s = <<>> THEN 0 ELSE 10 * IntOf(SubSeq(s, 1, Len(s) - 1)) + DigitVal(s[Len(s)])

\* pieces of text
PA == <<"/", "a">>
PB == <<"/", "b">>
SP == <<" ">>
CL == <<":">>
X  == <<"x">>
Y  == <<"y">>

\* ------------------------------------------------------------------------
\* clang_tidy_analyzer.parse_clang_tidy_output
\* ------------------------------------------------------------------------
KwError   == <<"error", ":">>
KwWarning == <<"warning", ":">>
KwNote    == <<"note", ":">>

\* 'error:' in line or 'warning:' in line or 'note:' in line
HasKeyword(line) ==
  Contains(line, KwError) \/ Contains(line, KwWarning) \/ Contains(line, KwNote)

\* current_file = None is modelled by the empty string: the code only ever
\* tests current_file for truth, and never assigns it an empty string
None == <<>>

\* mutation of IsStartLine: the keyword test is forgotten
IsStartLine_NoKeywordTest(line) == StartsWith(line, <<"/">>)

\* line 288: the line opens a new file group
IsStartLine(line) == StartsWith(line, <<"/">>) /\ HasKeyword(line)

\* mutation of IsContinuation: the test of current_file is forgotten
IsContinuation_NoFileTest(current_file, line) == HasKeyword(line)

\* line 327: the line is a further diagnostic of the open file group
IsContinuation(current_file, line) == current_file # None /\ HasKeyword(line)

\* lines 304-315 and 329-340: severity and message of a text
SeverityMessage(rest) ==
  IF Contains(rest, KwError)
  THEN [severity |-> "error",   message |-> Strip(Split(rest, KwError, 1)[2])]
  ELSE IF Contains(rest, KwWarning)
  THEN [severity |-> "warning", message |-> Strip(Split(rest, KwWarning, 1)[2])]
  ELSE IF Contains(rest, KwNote)
  THEN [severity |-> "note",    message |-> Strip(Split(rest, KwNote, 1)[2])]
  ELSE [severity |-> "info",    message |-> Strip(rest)]

\* lines 317-323 and 342-348: one diagnostic dictionary
Diagnostic(sm, line_no) ==
  [severity |-> sm.severity, line |-> line_no, column |-> 0,
   message |-> sm.message, checkName |-> "clang-tidy"]

\* lines 290-294 and 351-355: save the open group if it has diagnostics
SaveGroup(json_data, current_file, current_diagnostics) ==
  IF current_file # None /\ current_diagnostics # <<>>
  THEN Append(json_data, [file |-> current_file, diagnostics |-> current_diagnostics])
  ELSE json_data

ParseState(jd, cf, cd, raised) ==
  [json_data |-> jd, current_file |-> cf, current_diagnostics |-> cd, raised |-> raised]

\* lines 296-326: open a new file group from a start line
StartGroup(jd, cf, cd, line) ==
  LET saved == SaveGroup(jd, cf, cd)
      parts == Split(line, <<":">>, 2)
  IN  IF Len(parts) >= 3
      THEN IF IsDigit(parts[2]) /\ IntRaises(parts[2])
           THEN ParseState(saved, parts[1], cd, TRUE)
           ELSE ParseState(saved, parts[1],
                           <<Diagnostic(SeverityMessage(parts[3]),
                                        IF IsDigit(parts[2]) THEN IntOf(parts[2]) ELSE 0)>>,
                           FALSE)
      ELSE ParseState(saved, line, <<>>, FALSE)

\* lines 282-348: the body of the scan loop for one line of the output
ParseLine(jd, cf, cd, rawline) ==
  LET line == Strip(rawline)
  IN  IF line = <<>> THEN ParseState(jd, cf, cd, FALSE)
      ELSE IF IsStartLine(line) THEN StartGroup(jd, cf, cd, line)
      ELSE IF IsContinuation(cf, line)
      THEN ParseState(jd, cf, Append(cd, Diagnostic(SeverityMessage(line), 0)), FALSE)
      ELSE ParseState(jd, cf, cd, FALSE)

\* lines 274-357: the whole parse of an output given as its lines
RECURSIVE ScanLines(_, _)
ScanLines(st, lines) ==
  IF lines = <<>> \/ st.raised THEN st
  ELSE ScanLines(ParseLine(st.json_data, st.current_file, st.current_diagnostics, Head(lines)),
                 Tail(lines))

parse_clang_tidy_output(output) ==
  LET st == ScanLines(ParseState(<<>>, None, <<>>, FALSE), output)
  IN  [raised |-> st.raised,
       json_data |-> IF st.raised THEN <<>>
                     ELSE SaveGroup(st.json_data, st.current_file, st.current_diagnostics)]

\* ------------------------------------------------------------------------
\* pathlib operations on token sequences ("/" and "." are tokens of their own)
\* ------------------------------------------------------------------------
\* Path(__file__).parent.parent of the scripts
project_root == <<"/", "p">>

\* position of the last "/" of a path, 0 if none
LastSlash(path) ==
  LET hits == { i \in 1..Len(path) : path[i] = "/" }
  IN  IF hits = {} THEN 0 ELSE CHOOSE i \in hits : \A j \in hits : j <= i

\* Path(path).name
PathName(path) == SubSeq(path, LastSlash(path) + 1, Len(path))

\* Path(path).parent
PathParent(path) ==
  IF LastSlash(path) <= 1 THEN SubSeq(path, 1, LastSlash(path))
  ELSE SubSeq(path, 1, LastSlash(path) - 1)

\* base / arg: an absolute arg replaces base
PathJoin(base, arg) ==
  IF StartsWith(arg, <<"/">>) THEN arg ELSE base \o <<"/">> \o arg

\* Path(path).relative_to(base) does not raise ValueError
IsRelativeTo(path, base) == path = base \/ StartsWith(path, base \o <<"/">>)

\* s.replace(old, new) for single characters
ReplaceChar(s, old, new) == [i \in 1..Len(s) |-> IF s[i] = old THEN new ELSE s[i]]

\* Path(file_path).name.replace('.', '_').replace('/', '_')
SafeFilename(file_path) == ReplaceChar(ReplaceChar(PathName(file_path), ".", "_"), "/", "_")

\* ------------------------------------------------------------------------
\* Third-party filter of generate_file_report
\* ------------------------------------------------------------------------
ThirdPartyMarkers ==
  {"3rd_party", "third_party", "external", "vendor", "googletest", "gtest", "gmock"}

\* the markers that occur in the text of a name token; a marker has no "/",
\* "." or blank, so it can only occur inside one name token
MarkersIn(tok) ==
  IF tok \in ThirdPartyMarkers THEN {tok}
  ELSE IF tok = "vendored" THEN {"vendor"}
  ELSE {}

\* mutation of IsThirdParty: a marker has to be a whole path segment
IsThirdParty_WholeSegments(path) == \E i \in 1..Len(path) : path[i] \in ThirdPartyMarkers

\* any(third_party in path for third_party in [...])
IsThirdParty(path) == \E i \in 1..Len(path) : MarkersIn(path[i]) # {}

\* ------------------------------------------------------------------------
\* Files on disk
\* ------------------------------------------------------------------------
Absent == [kind |-> "absent"]
JsonFile(data) == [kind |-> "json", data |-> data]
XmlFile(errors) == [kind |-> "xml", wellformed |-> TRUE, errors |-> errors]
MalformedXml == [kind |-> "xml", wellformed |-> FALSE, errors |-> <<>>]

\* ------------------------------------------------------------------------
\* generate_index_html (the same code in both analyzers)
\* ------------------------------------------------------------------------
\* issue counts up to this bound are shown as warnings
WarningLimit == 5

\* mutation of Status: the comparison is strict
Status_StrictLimit(issue_count) ==
  IF issue_count = 0 THEN "success"
  ELSE IF issue_count < WarningLimit THEN "warning"
  ELSE "error"

\* lines 234-243: 'success' is displayed as "Clean"
Status(issue_count) ==
  IF issue_count = 0 THEN "success"
  ELSE IF issue_count <= WarningLimit THEN "warning"
  ELSE "error"

\* mutation of generate_index_html: files without issues are left out
generate_index_html_SkipsClean(file_reports) ==
  LET listed == SelectSeq(file_reports, LAMBDA r : r.issues # 0)
  IN  [i \in 1..Len(listed) |->
         [file |-> listed[i].file, issues |-> listed[i].issues,
          status |-> Status(listed[i].issues), path |-> listed[i].path]]

\* lines 229-261: one entry of the index view per report; a report is the
\* dictionary the run loop builds (file, issues, path) together with the
\* diagnostics shown in the file's detail view
generate_index_html(file_reports) ==
  [i \in 1..Len(file_reports) |->
     [file |-> file_reports[i].file, issues |-> file_reports[i].issues,
      status |-> Status(file_reports[i].issues), path |-> file_reports[i].path]]

\* ------------------------------------------------------------------------
\* clang_tidy_analyzer.generate_file_report
\* ------------------------------------------------------------------------
\* mutation of clang_tidy_file_diagnostics: a later group of the file is put
\* in front of the earlier ones
RECURSIVE clang_tidy_file_diagnostics_Reversed(_, _)
clang_tidy_file_diagnostics_Reversed(data, file_path) ==
  IF data = <<>> THEN <<>>
  ELSE LET file_data == Head(data)
           rest == clang_tidy_file_diagnostics_Reversed(Tail(data), file_path)
       IN  IF file_data.file = file_path /\ ~IsThirdParty(file_data.file)
           THEN rest \o file_data.diagnostics
           ELSE rest

\* lines 72-87: the diagnostics of the groups of file_path
RECURSIVE clang_tidy_file_diagnostics(_, _)
clang_tidy_file_diagnostics(data, file_path) ==
  IF data = <<>> THEN <<>>
  ELSE LET file_data == Head(data)
           rest == clang_tidy_file_diagnostics(Tail(data), file_path)
       IN  IF file_data.file = file_path /\ ~IsThirdParty(file_data.file)
           THEN file_data.diagnostics \o rest
           ELSE rest

FileReportResult(raised, caught, diagnostics, html) ==
  [raised |-> raised, caught |-> caught, issues |-> Len(diagnostics),
   diagnostics |-> diagnostics, html |-> html]

\* lines 65-185; raised: ValueError of relative_to leaves the function,
\* caught: the except clause returned 0, html: the detail view was written
clang_tidy_generate_file_report(json_file, file_path) ==
  IF json_file.kind # "json"
  THEN FileReportResult(FALSE, TRUE, <<>>, FALSE)
  ELSE IF ~IsRelativeTo(file_path, project_root)
  THEN FileReportResult(TRUE, FALSE, <<>>, FALSE)
  ELSE FileReportResult(FALSE, FALSE,
                        clang_tidy_file_diagnostics(json_file.data, file_path), TRUE)

\* ------------------------------------------------------------------------
\* cppcheck_analyzer.generate_file_report
\* ------------------------------------------------------------------------
\* mutation of cppcheck_file_errors: an element counts for the file of any
\* of its locations
RECURSIVE cppcheck_file_errors_AnyLocation(_, _)
cppcheck_file_errors_AnyLocation(errors, file_path) ==
  IF errors = <<>> THEN <<>>
  ELSE LET error == Head(errors)
           rest == cppcheck_file_errors_AnyLocation(Tail(errors), file_path)
       IN  IF \E l \in 1..Len(error.locations) :
                /\ error.locations[l].file = file_path
                /\ ~IsThirdParty(error.locations[l].file)
           THEN <<error>> \o rest
           ELSE rest

\* mutation of cppcheck_file_errors: files are compared by their names,
\* not by their whole path strings
RECURSIVE cppcheck_file_errors_ByName(_, _)
cppcheck_file_errors_ByName(errors, file_path) ==
  IF errors = <<>> THEN <<>>
  ELSE LET error == Head(errors)
           rest == cppcheck_file_errors_ByName(Tail(errors), file_path)
       IN  IF /\ error.locations # <<>>
              /\ PathName(error.locations[1].file) = PathName(file_path)
              /\ ~IsThirdParty(error.locations[1].file)
           THEN <<error>> \o rest
           ELSE rest

\* lines 199-214: the error elements whose first location is in file_path
RECURSIVE cppcheck_file_errors(_, _)
cppcheck_file_errors(errors, file_path) ==
  IF errors = <<>> THEN <<>>
  ELSE LET error == Head(errors)
           rest == cppcheck_file_errors(Tail(errors), file_path)
       IN  IF /\ error.locations # <<>>
              /\ error.locations[1].file = file_path
              /\ ~IsThirdParty(error.locations[1].file)
           THEN <<error>> \o rest
           ELSE rest

\* lines 189-314; it is only called on a raw report that exists (line 467)
cppcheck_generate_file_report(xml_file, file_path) ==
  IF ~xml_file.wellformed
  THEN FileReportResult(FALSE, TRUE, <<>>, FALSE)
  ELSE IF ~IsRelativeTo(file_path, project_root)
  THEN FileReportResult(TRUE, FALSE, <<>>, FALSE)
  ELSE FileReportResult(FALSE, FALSE, cppcheck_file_errors(xml_file.errors, file_path), TRUE)

\* ------------------------------------------------------------------------
\* One run of an analyzer: run_clang_tidy and run_cppcheck
\* ------------------------------------------------------------------------
\* exit: the way the run ended,
\*   "no_targets"       empty file list, return True
\*   "tool_unavailable" subprocess.run raised FileNotFoundError, return False
\*   "no_output"        no stdout / no raw report file, return False
\*   "parse_raised"     parse_clang_tidy_output raised ValueError
\*   "render_raised"    generate_file_report raised ValueError
\*   "completed"        index written, cleanup done, return returncode == 0
\* returned: the function returned (FALSE: the exception left it);
\* success: the value returned; executed: the tool process ran, and
\* returncode is its exit code (-1 stands for "there is none");
\* source: the raw report the file reports were computed from;
\* raw: the raw report file after the run
RunResult(exit, success, returncode, loop, source, raw) ==
  [exit |-> exit,
   returned |-> exit \notin {"parse_raised", "render_raised"},
   success |-> success,
   executed |-> exit \notin {"no_targets", "tool_unavailable"},
   returncode |-> IF exit \in {"no_targets", "tool_unavailable"} THEN -1 ELSE returncode,
   file_reports |-> loop.file_reports, total_issues |-> loop.total_issues,
   html |-> loop.html,
   index_written |-> exit = "completed",
   index |-> IF exit = "completed" THEN generate_index_html(loop.file_reports) ELSE <<>>,
   source |-> source, raw |-> raw]

\* mutation of NoFiles: the test of the file list is forgotten
NoFiles_Ignored(files) == FALSE

\* clang_tidy_analyzer line 362, cppcheck_analyzer line 405: if not files
NoFiles(files) == files = <<>>

NoLoop == [file_reports |-> <<>>, total_issues |-> 0, html |-> <<>>, raised |-> FALSE]

\* mutation of ReturnSuccess: the exit code of the tool is ignored
ReturnSuccess_IgnoresCode(returncode) == TRUE

\* clang_tidy_analyzer line 464, cppcheck_analyzer line 506
ReturnSuccess(returncode) == returncode = 0

\* clang_tidy_analyzer lines 431-446: the loop over the target files
RECURSIVE clang_tidy_report_loop(_, _, _)
clang_tidy_report_loop(json_report, files, acc) ==
  IF files = <<>> THEN acc
  ELSE LET file_path == Head(files)
           r == clang_tidy_generate_file_report(json_report, file_path)
           report_path == SafeFilename(file_path) \o <<"-clang-tidy-report.html">>
       IN  IF r.raised THEN [acc EXCEPT !.raised = TRUE]
           ELSE clang_tidy_report_loop(json_report, Tail(files),
                  [acc EXCEPT
                     !.total_issues = @ + r.issues,
                     !.html = IF r.html THEN Append(@, report_path) ELSE @,
                     !.file_reports = Append(@, [file |-> file_path, issues |-> r.issues,
                                                 path |-> report_path,
                                                 diagnostics |-> r.diagnostics])])

\* clang_tidy_analyzer lines 360-469; env is what the tool does when invoked,
\* json_report the content of the raw report file before the run
run_clang_tidy(files, save_raw_json, env, json_report) ==
  IF NoFiles(files)
  THEN RunResult("no_targets", TRUE, env.returncode, NoLoop, Absent, json_report)
  ELSE IF ~env.available
  THEN RunResult("tool_unavailable", FALSE, env.returncode, NoLoop, Absent, json_report)
  ELSE IF env.stdout = <<>>
  THEN RunResult("no_output", FALSE, env.returncode, NoLoop, Absent, json_report)
  ELSE LET parsed == parse_clang_tidy_output(env.stdout)
           written == JsonFile(parsed.json_data)
           loop == clang_tidy_report_loop(written, files, NoLoop)
       IN  IF parsed.raised
           THEN RunResult("parse_raised", FALSE, env.returncode, NoLoop, Absent, json_report)
           ELSE IF loop.raised
           THEN RunResult("render_raised", FALSE, env.returncode, loop, written, written)
           ELSE RunResult("completed", ReturnSuccess(env.returncode), env.returncode, loop,
                          written, IF save_raw_json THEN written ELSE Absent)

\* cppcheck_analyzer lines 473-488: the loop over the target files
RECURSIVE cppcheck_report_loop(_, _, _)
cppcheck_report_loop(raw_report, files, acc) ==
  IF files = <<>> THEN acc
  ELSE LET file_path == Head(files)
           r == cppcheck_generate_file_report(raw_report, file_path)
           report_path == SafeFilename(file_path) \o <<"-cppcheck-report.html">>
       IN  IF r.raised THEN [acc EXCEPT !.raised = TRUE]
           ELSE cppcheck_report_loop(raw_report, Tail(files),
                  [acc EXCEPT
                     !.total_issues = @ + r.issues,
                     !.html = IF r.html THEN Append(@, report_path) ELSE @,
                     !.file_reports = Append(@, [file |-> file_path, issues |-> r.issues,
                                                 path |-> report_path,
                                                 diagnostics |-> r.diagnostics])])

\* cppcheck_analyzer lines 403-510; env.xml is the file the tool writes to
\* --output-file (Absent when it writes none), raw_report the content of
\* that path before the run
run_cppcheck(files, save_raw_xml, env, raw_report) ==
  IF NoFiles(files)
  THEN RunResult("no_targets", TRUE, env.returncode, NoLoop, Absent, raw_report)
  ELSE IF ~env.available
  THEN RunResult("tool_unavailable", FALSE, env.returncode, NoLoop, Absent, raw_report)
  ELSE LET on_disk == IF env.xml = Absent THEN raw_report ELSE env.xml
           loop == cppcheck_report_loop(on_disk, files, NoLoop)
       IN  IF on_disk = Absent
           THEN RunResult("no_output", FALSE, env.returncode, NoLoop, Absent, on_disk)
           ELSE IF loop.raised
           THEN RunResult("render_raised", FALSE, env.returncode, loop, on_disk, on_disk)
           ELSE RunResult("completed", ReturnSuccess(env.returncode), env.returncode, loop,
                          on_disk, IF save_raw_xml THEN on_disk ELSE Absent)

\* ------------------------------------------------------------------------
\* The source tree the analyzers are pointed at
\* ------------------------------------------------------------------------
SrcDir == <<"/", "p", "/", "s">>
VendorDir == SrcDir \o <<"/", "third_party">>
\* a directory outside the project root with the name of SrcDir
OutsideDir == <<"/", "o", "/", "s">>
EmptyDir == <<"/", "p", "/", "e">>
FA == SrcDir \o <<"/", "a", ".", "cpp">>
FB == SrcDir \o <<"/", "b", ".", "h">>
FText == SrcDir \o <<"/", "n", ".", "txt">>
\* a file of the project whose name contains the marker 'vendor'
FW == SrcDir \o <<"/", "vendored", ".", "h">>
FBuild == SrcDir \o <<"/", "build", "/", "a", ".", "cpp">>
FV == VendorDir \o <<"/", "a", ".", "cpp">>
FO == OutsideDir \o <<"/", "a", ".", "cpp">>
\* a header no run targets
FU == <<"/", "usr", "/", "u", ".", "h">>
\* another spelling of the path of FA, as a tool may print it
FAlias == SrcDir \o <<"/", "..", "/", "s", "/", "a", ".", "cpp">>

\* the files of the tree in the order os.walk yields them
TreeFiles == <<FA, FB, FW, FText, FBuild, FV, FO>>
TreeDirs == {SrcDir, VendorDir, OutsideDir, EmptyDir}

\* Path.exists()
Exists(path) == path \in TreeDirs \/ \E i \in 1..Len(TreeFiles) : TreeFiles[i] = path

\* lines 32 and 50
extensions == {"h", "cpp", "mm", "m", "hpp", "c"}

\* line 35
exclude_dirs == {"build", ".git", "node_modules", "CMakeFiles", "__pycache__"}

\* file.endswith(extensions) / file_path.suffix in extensions
HasSourceSuffix(path) ==
  Len(path) >= 2 /\ path[Len(path) - 1] = "." /\ path[Len(path)] \in extensions

\* lines 48-51
is_source_file(file_path) == HasSourceSuffix(file_path)

\* lines 27-45: the walk skips the excluded directories below folder_path
find_source_files(folder_path) ==
  SelectSeq(TreeFiles,
    LAMBDA f :
      /\ StartsWith(f, folder_path \o <<"/">>)
      /\ HasSourceSuffix(f)
      /\ \A i \in (Len(folder_path) + 1)..LastSlash(f) : f[i] \notin exclude_dirs)

\* ------------------------------------------------------------------------
\* main of clang_tidy_analyzer and of cppcheck_analyzer (the same code)
\* ------------------------------------------------------------------------
\* command lines: exactly one of file and folder is given
FolderArg(folder) == [file |-> None, folder |-> folder]
FileArg(file) == [file |-> file, folder |-> None]

\* lines 520-552: target file or folder of the command line
Target(args) ==
  PathJoin(project_root, IF args.file # None THEN args.file ELSE args.folder)

\* lines 524-531 and 543-545: main leaves with sys.exit(1) before any run
TargetRejected(args) ==
  \/ ~Exists(Target(args))
  \/ args.file # None /\ ~is_source_file(Target(args))

\* lines 536 and 551
SourceFiles(args) ==
  IF args.file # None THEN <<Target(args)>> ELSE find_source_files(Target(args))

\* lines 537 and 552
FolderName(args) ==
  IF args.file # None THEN PathName(PathParent(Target(args))) ELSE args.folder

NoRun(tool, args) ==
  [tool |-> tool, args |-> args, started |-> FALSE, status |-> 1]

\* what main leaves behind: the process exit status and the run it made,
\* with env, the behaviour of the tool it met;
\* an exception that leaves run_* ends the process with status 1
MainResult(tool, args, save_raw, env, r) ==
  [tool |-> tool, args |-> args, started |-> TRUE, env |-> env,
   files |-> SourceFiles(args), folder_name |-> FolderName(args), save_raw |-> save_raw,
   status |-> IF r.returned /\ r.success THEN 0 ELSE 1] @@ r

\* clang_tidy_analyzer lines 472-569; raw is the raw report at the run's path
clang_tidy_main(args, save_raw_json, env, raw) ==
  IF TargetRejected(args) THEN NoRun("clang-tidy", args)
  ELSE MainResult("clang-tidy", args, save_raw_json, env,
                  run_clang_tidy(SourceFiles(args), save_raw_json, env, raw))

\* cppcheck_analyzer lines 513-610
cppcheck_main(args, save_raw_xml, env, raw) ==
  IF TargetRejected(args) THEN NoRun("cppcheck", args)
  ELSE MainResult("cppcheck", args, save_raw_xml, env,
                  run_cppcheck(SourceFiles(args), save_raw_xml, env, raw))

\* ------------------------------------------------------------------------
\* Inputs: command lines and behaviours of the external tools
\* ------------------------------------------------------------------------
CommandLines ==
  { FolderArg(<<"s">>),                          \* four files, two of them filtered
    FileArg(<<"s", "/", "a", ".", "cpp">>),      \* one file, same folder name
    FileArg(FO),                                 \* a file outside the project root
    FolderArg(<<"e">>),                          \* no source files
    FileArg(<<"s", "/", "n", ".", "txt">>),      \* not a source file
    FolderArg(<<"m">>) }                         \* does not exist

FolderNames == { FolderName(a) : a \in { c \in CommandLines : ~TargetRejected(c) } }
Tools == {"cppcheck", "clang-tidy"}

\* "<path>:1:2: <severity>: x"
DiagLine(path, kw) == path \o CL \o <<"1">> \o CL \o <<"2">> \o CL \o SP \o kw \o SP \o X
NoteLine == SP \o KwNote \o SP \o Y

\* every line gets its position in the output as the last word of its text
Numbered(out) == [n \in 1..Len(out) |-> out[n] \o SP \o <<ToString(n)>>]

Stdouts ==
  { <<>>,                                                       \* nothing
    Numbered(<<DiagLine(FA, KwWarning)>>),                      \* one issue
    Numbered(<<DiagLine(FO, KwNote)>>),             \* one issue, outside the root
    Numbered(<<X, DiagLine(FA, KwWarning), NoteLine, NoteLine, DiagLine(FU, KwWarning),
               DiagLine(FB, KwNote), NoteLine, NoteLine, NoteLine, NoteLine, NoteLine,
               DiagLine(FV, KwError), DiagLine(FW, KwWarning), DiagLine(FAlias, KwWarning),
               DiagLine(FA, KwError), NoteLine>>),
                     \* a banner, 5 in FA, 6 in FB, 1 in FV, FW, FU and FAlias
    <<FA \o CL \o <<"sup2">> \o CL \o SP \o KwError \o SP \o X>> }
                                                  \* line number int() rejects

ClangTidyEnvs ==
  {[available |-> FALSE, returncode |-> 0, stdout |-> <<>>]} \cup
  {[available |-> TRUE, returncode |-> rc, stdout |-> out] : rc \in {0, 1}, out \in Stdouts}

\* <error severity=...><location file=.../>...</error>; a location without
\* file attribute has file "" (file_elem.get('file', ''))
Error(severity, files) ==
  [severity |-> severity, locations |-> [i \in 1..Len(files) |-> [file |-> files[i]]]]

\* a well-formed report; id is the position of the element in the document
Document(errors) == XmlFile([n \in 1..Len(errors) |-> errors[n] @@ [id |-> n]])

XmlReports ==
  { Absent,
    MalformedXml,
    Document(<<>>),
    Document(<<Error("information", <<FA>>), Error("error", <<FB, FA>>),
               Error("style", <<FA>>), Error("warning", <<>>), Error("style", <<FA>>),
               Error("style", <<<<>>>>), Error("error", <<FU>>), Error("error", <<FV>>),
               Error("warning", <<FW>>), Error("warning", <<FAlias>>),
               Error("error", <<FA>>), Error("error", <<FA>>)>> \o
             [i \in 1..5 |-> Error("error", <<FB, FA>>)]) }
                     \* 5 in FA, 6 in FB, 1 in FU, FV, FW, FAlias, 2 in no file

CppcheckEnvs ==
  {[available |-> FALSE, returncode |-> 0, xml |-> Absent]} \cup
  {[available |-> TRUE, returncode |-> rc, xml |-> x] : rc \in {0, 1}, x \in XmlReports}

\* ------------------------------------------------------------------------
\* State
\* ------------------------------------------------------------------------
VARIABLES
  \* parse_clang_tidy_output, scanned line by line
  pcParse,              \* "scan" | "done" | "raised"
  lines,                \* the lines of the output read so far
  json_data,            \* list of saved file groups
  current_file,         \* file of the open group, None if no group is open
  current_diagnostics,  \* diagnostics of the open group
  \* analyzer processes run one after the other
  raw,                  \* raw report file of each tool and folder name
  run,                  \* the last analyzer process: its inputs and what it did
  nruns,                \* number of analyzer processes so far
  \* static_analyzer.main
  sess                  \* position, options, verdict and the processes it ran

parseVars == <<pcParse, lines, json_data, current_file, current_diagnostics>>
runVars == <<raw, run, nruns>>
vars == <<pcParse, lines, json_data, current_file, current_diagnostics,
          raw, run, nruns, sess>>

\* number of analyzer processes a behaviour starts
MaxRuns == 2

Idle == [tool |-> "none", started |-> FALSE, status |-> 0]
NoOptions ==
  [args |-> FolderArg(None), cppcheck_only |-> FALSE, clang_tidy_only |-> FALSE,
   save_raw_xml |-> FALSE, save_raw_json |-> FALSE]

Init ==
  /\ pcParse = "scan"
  /\ lines = <<>>
  /\ json_data = <<>>
  /\ current_file = None
  /\ current_diagnostics = <<>>
  /\ raw = [k \in Tools \X FolderNames |-> Absent]
  /\ run = Idle
  /\ nruns = 0
  /\ sess = [pc |-> "idle", opts |-> NoOptions, success |-> TRUE, results |-> <<>>,
             status |-> 0]

\* the raw report the process of a tool finds at its path
RawAt(files, tool, args) ==
  IF TargetRejected(args) THEN Absent ELSE files[<<tool, FolderName(args)>>]

\* the raw report files after a process
RawAfter(files, m) ==
  IF m.started THEN [files EXCEPT ![<<m.tool, m.folder_name>>] = m.raw] ELSE files

\* ------------------------------------------------------------------------
\* Analyzer processes started from the command line
\* ------------------------------------------------------------------------
\* the tool is only asked for its behaviour when main gets to invoke it
InvokesTool(args) == ~TargetRejected(args) /\ SourceFiles(args) # <<>>
NotInvoked(envs) == { CHOOSE env \in envs : ~env.available }

ClangTidyRun ==
  /\ nruns < MaxRuns
  /\ \E args \in CommandLines, save_raw_json \in BOOLEAN :
       \E env \in IF InvokesTool(args) THEN ClangTidyEnvs ELSE NotInvoked(ClangTidyEnvs) :
         LET m == clang_tidy_main(args, save_raw_json, env, RawAt(raw, "clang-tidy", args))
         IN  /\ run' = m
             /\ raw' = RawAfter(raw, m)
  /\ nruns' = nruns + 1
  /\ UNCHANGED <<parseVars, sess>>

CppcheckRun ==
  /\ nruns < MaxRuns
  /\ \E args \in CommandLines, save_raw_xml \in BOOLEAN :
       \E env \in IF InvokesTool(args) THEN CppcheckEnvs ELSE NotInvoked(CppcheckEnvs) :
         LET m == cppcheck_main(args, save_raw_xml, env, RawAt(raw, "cppcheck", args))
         IN  /\ run' = m
             /\ raw' = RawAfter(raw, m)
  /\ nruns' = nruns + 1
  /\ UNCHANGED <<parseVars, sess>>

Next == ClangTidyRun \/ CppcheckRun

Spec == Init /\ [][Next]_vars

\* ------------------------------------------------------------------------
\* static_analyzer.main: both analyzers as child processes
\* ------------------------------------------------------------------------
SessionOptions ==
  [args : CommandLines, cppcheck_only : BOOLEAN, clang_tidy_only : BOOLEAN,
   save_raw_xml : BOOLEAN, save_raw_json : BOOLEAN]

\* mutation of FoldSuccess: the verdict is the one of the last child
FoldSuccess_LastWins(success, returncode) == returncode = 0

\* lines 110-111 and 135-136: a child's exit status folded into the verdict
FoldSuccess(success, returncode) == IF returncode # 0 THEN FALSE ELSE success

\* mutation of AfterCppcheck: a failed cppcheck ends the session
AfterCppcheck_StopOnFailure(returncode) ==
  IF returncode # 0 THEN "summary" ELSE "clang_tidy"

\* lines 109-118: subprocess.run(cmd, check=False) returns whatever the
\* status of the child, and main goes on to the clang-tidy block
AfterCppcheck(returncode) == "clang_tidy"

\* lines 79-90: the command line is parsed, success = True
SessionStart ==
  /\ sess.pc = "idle"
  /\ \E opts \in SessionOptions :
       sess' = [pc |-> "cppcheck", opts |-> opts, success |-> TRUE, results |-> <<>>,
                status |-> 0]
  /\ UNCHANGED <<parseVars, runVars>>

\* lines 92-115: the cppcheck block
SessionCppcheck ==
  /\ sess.pc = "cppcheck"
  /\ IF ~sess.opts.clang_tidy_only
     THEN \E env \in IF InvokesTool(sess.opts.args) THEN CppcheckEnvs
                     ELSE NotInvoked(CppcheckEnvs) :
            LET m == cppcheck_main(sess.opts.args, sess.opts.save_raw_xml, env,
                                   RawAt(raw, "cppcheck", sess.opts.args))
            IN  /\ raw' = RawAfter(raw, m)
                /\ sess' = [sess EXCEPT !.pc = AfterCppcheck(m.status),
                                        !.success = FoldSuccess(@, m.status),
                                        !.results = Append(@, m)]
     ELSE /\ sess' = [sess EXCEPT !.pc = "clang_tidy"]
          /\ raw' = raw
  /\ UNCHANGED <<parseVars, run, nruns>>

\* lines 117-140: the clang-tidy block
SessionClangTidy ==
  /\ sess.pc = "clang_tidy"
  /\ IF ~sess.opts.cppcheck_only
     THEN \E env \in IF InvokesTool(sess.opts.args) THEN ClangTidyEnvs
                     ELSE NotInvoked(ClangTidyEnvs) :
            LET m == clang_tidy_main(sess.opts.args, sess.opts.save_raw_json, env,
                                     RawAt(raw, "clang-tidy", sess.opts.args))
            IN  /\ raw' = RawAfter(raw, m)
                /\ sess' = [sess EXCEPT !.pc = "summary",
                                        !.success = FoldSuccess(@, m.status),
                                        !.results = Append(@, m)]
     ELSE /\ sess' = [sess EXCEPT !.pc = "summary"]
          /\ raw' = raw
  /\ UNCHANGED <<parseVars, run, nruns>>

\* lines 142-160: the summary, and sys.exit(1) unless success
SessionSummary ==
  /\ sess.pc = "summary"
  /\ sess' = [sess EXCEPT !.pc = "done", !.status = IF sess.success THEN 0 ELSE 1]
  /\ UNCHANGED <<parseVars, runVars>>

NextSession == SessionStart \/ SessionCppcheck \/ SessionClangTidy \/ SessionSummary

SpecSession == Init /\ [][NextSession]_vars

\* the process runs on until it exits
FairSpecSession == SpecSession /\ WF_vars(NextSession)

\* ------------------------------------------------------------------------
\* Lines of clang-tidy output fed to the scan
\* ------------------------------------------------------------------------

OutputLines ==
  { <<>>,                                                  \* ""
    SP,                                                    \* " "
    X,                                                     \* "x"
    PA \o CL \o <<"1">> \o CL \o X,                        \* "/a:1:x"
    PA \o CL \o <<"1">> \o CL \o <<"2">> \o CL \o SP \o KwWarning \o SP \o X,
                                                           \* "/a:1:2: warning: x"
    PA \o CL \o <<"1", "2">> \o CL \o SP \o KwError \o SP \o X,
                                                           \* "/a:12: error: x"
    SP \o PB \o CL \o <<"2">> \o CL \o SP \o KwNote \o SP \o Y \o SP,
                                                           \* " /b:2: note: y "
    PA \o CL \o <<"1">> \o CL \o SP \o KwWarning \o SP \o X \o SP \o KwError \o SP \o Y,
                                                           \* "/a:1: warning: x error: y"
    PB \o CL \o <<"1">> \o CL \o SP \o KwNote \o SP \o KwWarning \o X,
                                                           \* "/b:1: note: warning:x"
    PA \o CL \o X \o CL \o SP \o KwWarning \o SP \o Y,     \* "/a:x: warning: y"
    PA \o CL \o KwWarning \o SP \o X,                      \* "/a:warning: x"
    PA \o SP \o KwWarning \o SP \o X,                      \* "/a warning: x"
    PA \o CL \o <<"sup2">> \o CL \o SP \o KwError \o SP \o X,
                                                           \* "/a:<U+00B2>: error: x"
    KwNote \o SP \o X,                                     \* "note: x"
    SP \o SP \o KwWarning \o SP \o Y \o SP,                \* "  warning: y "
    X \o SP \o KwNote \o SP \o KwError \o SP \o Y,         \* "x note: error: y"
    <<"a">> \o CL \o <<"1">> \o CL \o SP \o KwWarning \o SP \o X
                                                           \* "a:1: warning: x"
  }

\* ------------------------------------------------------------------------
\* The free-text scan as a state machine
\* ------------------------------------------------------------------------
\* one iteration of the loop of lines 282-348
ScanLine ==
  /\ pcParse = "scan"
  /\ Len(lines) < MaxLines
  /\ \E rawline \in OutputLines :
       LET st == ParseLine(json_data, current_file, current_diagnostics, rawline)
       IN  /\ lines' = Append(lines, rawline)
           /\ json_data' = st.json_data
           /\ current_file' = st.current_file
           /\ current_diagnostics' = st.current_diagnostics
           /\ pcParse' = IF st.raised THEN "raised" ELSE "scan"
  /\ UNCHANGED <<runVars, sess>>

\* lines 350-357: the input has ended
FinishParse ==
  /\ pcParse = "scan"
  /\ json_data' = SaveGroup(json_data, current_file, current_diagnostics)
  /\ pcParse' = "done"
  /\ UNCHANGED <<lines, current_file, current_diagnostics, runVars, sess>>

NextParse == ScanLine \/ FinishParse

SpecParse == Init /\ [][NextParse]_vars

\* the line read by the step, as the loop sees it after strip()
ScannedLine == Strip(lines'[Len(lines')])
ScanStep == Len(lines') = Len(lines) + 1

\* ------------------------------------------------------------------------
\* Claims about the free-text parser
\* ------------------------------------------------------------------------
Severities == {"error", "warning", "info", "note", "unknown"}

EmittedWellFormed ==
  \A i \in 1..Len(json_data) :
    /\ json_data[i].file # <<>>
    /\ \A k \in 1..Len(json_data[i].diagnostics) :
         json_data[i].diagnostics[k].severity \in Severities

\* C8: every record emitted by parse_clang_tidy_output is in a group with a
\* non-empty file and has a severity of the enumeration, and a line without
\* any of 'error:', 'warning:', 'note:' produces no record and leaves the
\* current file, the current group and the output unchanged.
C8_KeywordlessLinesIgnored ==
  /\ []EmittedWellFormed
  /\ [][(ScanStep /\ ~HasKeyword(ScannedLine))
          => UNCHANGED <<json_data, current_file, current_diagnostics>>]_vars

\* a group is open, a group has been emitted, and the last line read had
\* text but no keyword
C8_Witness ==
  /\ json_data # <<>>
  /\ current_file # None
  /\ current_diagnostics # <<>>
  /\ lines # <<>>
  /\ Strip(lines[Len(lines)]) # <<>>
  /\ ~HasKeyword(lines[Len(lines)])

\* the keyword whose leftmost occurrence in rest comes first
LeftmostKeyword(rest) ==
  LET kws == { kw \in {KwError, KwWarning, KwNote} : Contains(rest, kw) }
  IN  CHOOSE kw \in kws : \A other \in kws : Find(rest, kw) <= Find(rest, other)

\* C9: for every start line the record's severity is the severity keyword
\* that occurs leftmost in the remainder after path and line number, and the
\* message is the remainder after that keyword.
C9_LeftmostKeywordDecides ==
  [][(/\ ScanStep
      /\ IsStartLine(ScannedLine)
      /\ Len(Split(ScannedLine, CL, 2)) >= 3
      /\ HasKeyword(Split(ScannedLine, CL, 2)[3])
      /\ pcParse' = "scan")
     => LET rest == Split(ScannedLine, CL, 2)[3]
            kw   == LeftmostKeyword(rest)
        IN  /\ Len(current_diagnostics') = 1
            /\ <<current_diagnostics'[1].severity, ":">> = kw
            /\ current_diagnostics'[1].message = Strip(Split(rest, kw, 1)[2])
     ]_vars

\* C10: a line that does not begin with a path but carries a severity keyword
\* adds exactly one record with line = 0 and column = 0 to the open file
\* group, bare file markers included, and does nothing when no group is open.
C10_ContinuationAttaches ==
  [][(/\ ScanStep
      /\ ~StartsWith(ScannedLine, <<"/">>)
      /\ HasKeyword(ScannedLine))
     => IF current_file # None
        THEN /\ current_file' = current_file
             /\ json_data' = json_data
             /\ Len(current_diagnostics') = Len(current_diagnostics) + 1
             /\ SubSeq(current_diagnostics', 1, Len(current_diagnostics)) = current_diagnostics
             /\ current_diagnostics'[Len(current_diagnostics')].line = 0
             /\ current_diagnostics'[Len(current_diagnostics')].column = 0
        ELSE UNCHANGED <<json_data, current_file, current_diagnostics>>
     ]_vars

\* a bare file marker is open and a continuation line has attached to it
C10_Witness ==
  /\ current_file # None
  /\ Len(Split(current_file, CL, 2)) < 3
  /\ HasKeyword(current_file)
  /\ Len(current_diagnostics) = 1
  /\ current_diagnostics[1].line = 0
  /\ ~StartsWith(Strip(lines[Len(lines)]), <<"/">>)

\* a text that is a plain decimal number
PlainNumber(t) == t # <<>> /\ \A i \in 1..Len(t) : t[i] \in DecimalChars

\* C18: parse_clang_tidy_output never raises, whatever the text, and a start
\* line whose line-number field is not a plain number is skipped or gives a
\* record with line = 0.
C18_ParseNeverRaises ==
  /\ [](pcParse # "raised")
  /\ [][(/\ ScanStep
         /\ IsStartLine(ScannedLine)
         /\ Len(Split(ScannedLine, CL, 2)) >= 3
         /\ ~PlainNumber(Split(ScannedLine, CL, 2)[2]))
        => \/ UNCHANGED <<json_data, current_file, current_diagnostics>>
           \/ /\ Len(current_diagnostics') = 1
              /\ current_diagnostics'[1].line = 0
       ]_vars

\* ------------------------------------------------------------------------
\* Claims about a run of an analyzer
\* ------------------------------------------------------------------------
\* the run got as far as calling run_clang_tidy / run_cppcheck with files
RanOnFiles == run.started /\ run.files # <<>>

\* C1: every entry of the index view is clean ('success') iff its issue count
\* is 0, error iff the count is above 5, and warning otherwise, whatever the
\* severities of the diagnostics counted.
C1_StatusByIssueCount ==
  run.started =>
    \A i \in 1..Len(run.index) :
      LET e == run.index[i]
      IN  /\ e.status = "success" <=> e.issues = 0
          /\ e.status = "error" <=> e.issues > 5
          /\ e.status = "warning" <=> (1 <= e.issues /\ e.issues <= 5)

\* an index with a clean file, a file of exactly 5 and a file of more than 5
C1_Witness ==
  /\ run.started
  /\ run.index_written
  /\ \E i, j, k \in 1..Len(run.index) :
       run.index[i].issues = 0 /\ run.index[j].issues = 5 /\ run.index[k].issues > 5

\* C4: a run on a non-empty file list reports success (return value True,
\* process status 0) only if the tool was executed and exited with code 0.
C4_SuccessOnlyIfToolExitedZero ==
  (RanOnFiles /\ ((run.returned /\ run.success) \/ run.status = 0))
    => (run.executed /\ run.returncode = 0)

C4_Witness == RanOnFiles /\ run.returned /\ run.success /\ run.status = 0

\* C5: when retention was not requested, no raw report file is left at the
\* run's path when the run ends, on every way out of the run.
C5_NoRawReportLeftBehind ==
  (RanOnFiles /\ ~run.save_raw) => run.raw = Absent

\* C6: a raw XML report that is not well-formed is fatal for the run: no
\* file reports, no entries in the index view, and no success.
C6_MalformedReportIsFatal ==
  (RanOnFiles /\ run.tool = "cppcheck" /\ run.source = MalformedXml)
    => /\ run.file_reports = <<>>
       /\ run.index = <<>>
       /\ ~(run.returned /\ run.success)

\* what a process of the tool reports when the tool binary is missing
ReportsOfUnavailable(tool) ==
  { <<m.returned, m.success, m.status>> :
      m \in { IF tool = "cppcheck"
              THEN cppcheck_main(args, FALSE, env, Absent)
              ELSE clang_tidy_main(args, FALSE, env, Absent) :
              args \in { a \in CommandLines : InvokesTool(a) },
              env \in NotInvoked(IF tool = "cppcheck" THEN CppcheckEnvs ELSE ClangTidyEnvs) } }

\* C7: a run whose tool ran and exited non-zero never reports the return
\* value and process status that a run with a missing tool binary reports.
C7_UnavailableDistinguishable ==
  (RanOnFiles /\ run.exit = "completed" /\ run.returncode # 0)
    => <<run.returned, run.success, run.status>> \notin ReportsOfUnavailable(run.tool)

\* ------------------------------------------------------------------------
\* Claims about the File Reports of a run
\* ------------------------------------------------------------------------
\* the last start line at or before line n of a free-text output, 0 if none
OpenedBy(out, n) ==
  LET starts == { k \in 1..n : IsStartLine(Strip(out[k])) }
  IN  IF starts = {} THEN 0 ELSE CHOOSE k \in starts : \A j \in starts : j <= k

\* the start line k splits into path, line number and remainder
ThreeParts(out, k) == Len(Split(Strip(out[k]), CL, 2)) >= 3

\* the file the start line k names
FileOfStart(out, k) ==
  IF ThreeParts(out, k) THEN Split(Strip(out[k]), CL, 2)[1] ELSE Strip(out[k])

\* the lines of a free-text output that carry a diagnostic of file f
DiagnosticLines(out, f) ==
  { n \in 1..Len(out) :
      /\ HasKeyword(out[n])
      /\ OpenedBy(out, n) # 0
      /\ FileOfStart(out, OpenedBy(out, n)) = f
      /\ OpenedBy(out, n) = n => ThreeParts(out, n) }

\* the elements of a markup document that are located in file f
DiagnosticElements(errors, f) ==
  { n \in 1..Len(errors) : errors[n].locations # <<>> /\ errors[n].locations[1].file = f }

\* the places of the raw output of the run that report a diagnostic of f
Reported(f) ==
  IF run.tool = "clang-tidy" THEN DiagnosticLines(run.env.stdout, f)
  ELSE DiagnosticElements(run.source.errors, f)

\* the place of the raw output a record of a File Report goes back to: the
\* line whose number ends its message, or the position of the element
Origin(d) ==
  IF run.tool = "clang-tidy"
  THEN CHOOSE n \in 1..Len(run.env.stdout) : ToString(n) = d.message[Len(d.message)]
  ELSE d.id

Origins(ds) == { Origin(ds[k]) : k \in 1..Len(ds) }

HasReports == run.started /\ run.file_reports # <<>>

\* C11: in every File Report the records go back to diagnostics of the
\* report's file and stand in the order these have in the raw output (line
\* order of the free text, document order of the markup), also when the file
\* has several groups.
C11_OrderPreserved ==
  HasReports =>
    \A i \in 1..Len(run.file_reports) :
      LET ds == run.file_reports[i].diagnostics
      IN  /\ \A k \in 1..Len(ds) : Origin(ds[k]) \in Reported(run.file_reports[i].file)
          /\ \A k \in 1..(Len(ds) - 1) : Origin(ds[k]) < Origin(ds[k + 1])

\* a free-text run whose report of FA joins two groups that are apart in
\* the output
C11_Witness ==
  /\ HasReports
  /\ run.tool = "clang-tidy"
  /\ \E i \in 1..Len(run.file_reports) :
       LET ds == run.file_reports[i].diagnostics
       IN  /\ run.file_reports[i].file = FA
           /\ Len(ds) = 5
           /\ Origin(ds[5]) - Origin(ds[1]) > 5

\* C12: when the output of clang-tidy is the one line
\* '<path>:1:2: <severity>: x 1' and the target list is that path, without
\* marker, the run yields exactly one File Report, for that path, with one
\* issue, status warning, and one record with that severity, line 1 and
\* message 'x 1'.
C12_OneLineOneRecord ==
  \A path \in {FA, FB, FO}, kw \in {KwError, KwWarning, KwNote} :
    (/\ run.started
     /\ run.tool = "clang-tidy"
     /\ run.executed
     /\ run.env.stdout = Numbered(<<DiagLine(path, kw)>>)
     /\ run.files = <<path>>)
    => /\ Len(run.file_reports) = 1
       /\ run.file_reports[1].file = path
       /\ run.file_reports[1].issues = 1
       /\ Len(run.index) = 1
       /\ run.index[1].status = "warning"
       /\ Len(run.file_reports[1].diagnostics) = 1
       /\ <<run.file_reports[1].diagnostics[1].severity, ":">> = kw
       /\ run.file_reports[1].diagnostics[1].line = 1
       /\ run.file_reports[1].diagnostics[1].message = X \o SP \o <<"1">>

\* the files of the tree whose path text contains a marker: 'third_party' as
\* a directory name, 'vendor' inside the file name 'vendored.h'
MarkedFiles == {FV, FW}

\* C13: in both analyzers, the File Report of a target whose path contains
\* a marker anywhere in its text has no issues and is clean whatever the
\* tool reported for it, and the File Report of a target without marker
\* has every diagnostic the tool reported for it.
C13_MarkerSuppresses ==
  HasReports =>
    \A i \in 1..Len(run.file_reports) :
      LET fr == run.file_reports[i]
      IN  /\ fr.file \in MarkedFiles =>
               /\ fr.issues = 0
               /\ fr.diagnostics = <<>>
               /\ run.index_written => run.index[i].status = "success"
          /\ fr.file \notin MarkedFiles => Origins(fr.diagnostics) = Reported(fr.file)

\* the tool reported diagnostics for both marked files, and for an unmarked
\* one, and the index view was written
C13_Witness ==
  /\ HasReports
  /\ run.index_written
  /\ \A f \in MarkedFiles :
       /\ Reported(f) # {}
       /\ \E i \in 1..Len(run.file_reports) :
            run.file_reports[i].file = f /\ run.index[i].issues = 0
  /\ \E i \in 1..Len(run.file_reports) :
       run.file_reports[i].file \notin MarkedFiles /\ run.file_reports[i].issues > 0

\* the file string the raw output gives for the diagnostic at place n
ReportedFile(n) ==
  IF run.tool = "clang-tidy"
  THEN FileOfStart(run.env.stdout, OpenedBy(run.env.stdout, n))
  ELSE run.source.errors[n].locations[1].file

\* the diagnostics a File Report of file f has to contain
Expected(f) == IF f \in MarkedFiles THEN {} ELSE Reported(f)

RECURSIVE SumExpected(_)
SumExpected(files) ==
  IF files = <<>> THEN 0 ELSE Cardinality(Expected(Head(files))) + SumExpected(Tail(files))

\* C14: the File Report of a target holds, once each, exactly the
\* diagnostics that are not suppressed and whose file string is the
\* target's string, character for character; a diagnostic of a file that is
\* not a target, or of another spelling of a target's path, is in no File
\* Report, in no issue count and not in the total of the run.
C14_ExactFileMatch ==
  HasReports =>
    /\ \A i \in 1..Len(run.file_reports) :
         LET fr == run.file_reports[i]
         IN  /\ Origins(fr.diagnostics) = Expected(fr.file)
             /\ Len(fr.diagnostics) = Cardinality(Expected(fr.file))
             /\ fr.issues = Cardinality(Expected(fr.file))
             /\ \A k \in 1..Len(fr.diagnostics) :
                  ReportedFile(Origin(fr.diagnostics[k])) = fr.file
    /\ run.exit = "completed" => run.total_issues = SumExpected(run.files)

\* the tool reported diagnostics for a file that is no target and for
\* another spelling of the target FA, and FA has its File Report
C14_Witness ==
  /\ HasReports
  /\ run.exit = "completed"
  /\ Reported(FU) # {}
  /\ Reported(FAlias) # {}
  /\ \E i \in 1..Len(run.file_reports) :
       run.file_reports[i].file = FA /\ run.file_reports[i].issues = 5
  /\ run.total_issues = 11

\* C15: in a run, two different target files never get the same detail-view
\* file name, so the detail view of one is not overwritten by another's.
C15_DetailViewNamesDistinct ==
  HasReports =>
    \A i, j \in 1..Len(run.file_reports) :
      run.file_reports[i].file # run.file_reports[j].file
        => run.file_reports[i].path # run.file_reports[j].path

\* the tool, once invoked, left output for the run to read
ProducedOutput ==
  IF run.tool = "clang-tidy" THEN run.env.stdout # <<>> ELSE run.env.xml # Absent

\* C16: when the tool ran with a non-zero exit code and produced output, the
\* run still computes a File Report for every target file, writes the index
\* view and removes the raw report unless retention was asked for; the exit
\* code shows in the returned value only.
C16_NonZeroExitNotFatal ==
  (RanOnFiles /\ run.executed /\ ProducedOutput /\ run.returncode # 0)
    => /\ run.exit = "completed"
       /\ Len(run.file_reports) = Len(run.files)
       /\ \A i \in 1..Len(run.files) : run.file_reports[i].file = run.files[i]
       /\ run.index_written
       /\ ~run.save_raw => run.raw = Absent
       /\ run.returned /\ ~run.success

\* C17: a run on an empty target list returns success and ends the process
\* with status 0, has no File Reports, does not invoke the tool, writes no
\* detail view and no index view, and leaves every raw report file as it was.
C17_NoTargetsIsNoOp ==
  /\ []((run.started /\ run.files = <<>>)
          => /\ run.returned /\ run.success /\ run.status = 0
             /\ run.file_reports = <<>>
             /\ ~run.executed
             /\ run.html = <<>>
             /\ ~run.index_written)
  /\ [][(nruns' # nruns /\ run'.started /\ run'.files = <<>>) => raw' = raw]_vars

\* a run on a folder without source files, after a run that kept its raw
\* report
C17_Witness ==
  /\ run.started
  /\ run.files = <<>>
  /\ run.success
  /\ \E k \in DOMAIN raw : raw[k] # Absent

\* a process that got as far as its report directory: build/<tool>-reports/
\* <folder_name>, with the raw report and the index view inside
WritesReports(m) == m.started /\ m.files # <<>>

\* both command lines name a folder, or both name a file with --file
SameKindOfTarget(a, b) == (a.file # None) = (b.file # None)

\* C19: two runs of the same analyzer on different targets, two folders or
\* two files given with --file, use different report directories and so
\* different raw report and index paths.
C19_TargetsHaveOwnDirectories ==
  [][(/\ nruns' # nruns
      /\ WritesReports(run)
      /\ WritesReports(run')
      /\ run'.tool = run.tool
      /\ SameKindOfTarget(run.args, run'.args)
      /\ Target(run'.args) # Target(run.args))
     => run'.folder_name # run.folder_name
    ]_vars

RECURSIVE SumIssues(_)
SumIssues(entries) ==
  IF entries = <<>> THEN 0 ELSE Head(entries).issues + SumIssues(Tail(entries))

\* C20: when a run writes its index view, the view has one entry per target
\* file, in the order of the target list, each with the number of
\* diagnostics of that file's File Report as its issue count, and the total
\* of the run is the sum of these counts.
C20_IndexListsEveryTarget ==
  (run.started /\ run.index_written) =>
    /\ Len(run.index) = Len(run.files)
    /\ \A i \in 1..Len(run.index) :
         /\ run.index[i].file = run.files[i]
         /\ run.file_reports[i].file = run.files[i]
         /\ run.index[i].issues = Len(run.file_reports[i].diagnostics)
    /\ run.total_issues = SumIssues(run.index)

\* an index view of four files, two of them with issues, two without
C20_Witness ==
  /\ run.started
  /\ run.index_written
  /\ Len(run.files) = 4
  /\ run.index[1].issues = 5
  /\ run.index[2].issues = 6
  /\ run.index[3].issues = 0
  /\ run.total_issues = 11

\* C21: on a non-empty target list, whenever the tool ran, the run returns
\* and its success flag is (exit code = 0); in particular a tool that exits
\* with 0 without any diagnostic output makes the run succeed.
C21_SuccessIsExitCodeZero ==
  (RanOnFiles /\ run.executed)
    => /\ run.returned
       /\ run.success <=> run.returncode = 0
       /\ run.status = 0 <=> run.returncode = 0

\* C22: the File Reports of a run are computed from what this run's own tool
\* invocation produced; when the invocation wrote no output, no raw report
\* of an earlier run is read and no File Report is computed from one.
C22_OnlyOwnOutputIsRead ==
  (RanOnFiles /\ run.executed /\ ~ProducedOutput)
    => /\ run.source = Absent
       /\ run.file_reports = <<>>
       /\ ~run.index_written

\* the records of all File Reports of the run that go back to element n
RECURSIVE RecordsOf(_, _)
RecordsOf(reports, n) ==
  IF reports = <<>> THEN 0
  ELSE Len(SelectSeq(Head(reports).diagnostics, LAMBDA d : d.id = n))
       + RecordsOf(Tail(reports), n)

\* C23: in a cppcheck run every error element of the report gives at most
\* one record over all File Reports, in the report of the file of its first
\* location; an element without location, or whose location has no file
\* attribute, gives none and is in no issue count.
C23_FirstLocationDecides ==
  (HasReports /\ run.tool = "cppcheck") =>
    LET errors == run.source.errors
    IN  /\ \A n \in 1..Len(errors) :
             /\ RecordsOf(run.file_reports, n) <= 1
             /\ (errors[n].locations = <<>> \/ errors[n].locations[1].file = <<>>)
                  => RecordsOf(run.file_reports, n) = 0
        /\ \A i \in 1..Len(run.file_reports) :
             \A k \in 1..Len(run.file_reports[i].diagnostics) :
               LET d == run.file_reports[i].diagnostics[k]
               IN  /\ d.locations # <<>>
                   /\ d.locations[1].file = run.file_reports[i].file
        /\ run.exit = "completed" =>
             run.total_issues =
               Cardinality({ n \in 1..Len(errors) : RecordsOf(run.file_reports, n) = 1 })

\* a report with an element without location, one without file attribute
\* and elements with a second location in another target, read by a run
\* on both targets
C23_Witness ==
  /\ HasReports
  /\ run.tool = "cppcheck"
  /\ run.exit = "completed"
  /\ \E n \in 1..Len(run.source.errors) : run.source.errors[n].locations = <<>>
  /\ \E n \in 1..Len(run.source.errors) :
       /\ run.source.errors[n].locations # <<>>
       /\ run.source.errors[n].locations[1].file = <<>>
  /\ \E n \in 1..Len(run.source.errors) :
       /\ Len(run.source.errors[n].locations) = 2
       /\ RecordsOf(run.file_reports, n) = 1
       /\ \E i \in 1..Len(run.files) : run.files[i] = run.source.errors[n].locations[2].file

\* ------------------------------------------------------------------------
\* Claim about the groups the free-text parser returns
\* ------------------------------------------------------------------------
\* the lines read so far for which the scan has to create a record: a start
\* line of three parts, or a keyword line read while a file is open
RecordLines ==
  { n \in 1..Len(lines) :
      /\ HasKeyword(Strip(lines[n]))
      /\ OpenedBy(lines, n) # 0
      /\ OpenedBy(lines, n) = n => ThreeParts(lines, n) }

\* the record of line n: the file it belongs to and its message
RecordOfLine(n) ==
  [file |-> FileOfStart(lines, OpenedBy(lines, n)),
   message |-> IF OpenedBy(lines, n) = n
               THEN SeverityMessage(Split(Strip(lines[n]), CL, 2)[3]).message
               ELSE SeverityMessage(Strip(lines[n])).message]

\* the elements of a set of numbers in ascending order
RECURSIVE Ascending(_)
Ascending(S) ==
  IF S = {} THEN <<>>
  ELSE LET m == CHOOSE x \in S : \A y \in S : x <= y
       IN  <<m>> \o Ascending(S \ {m})

CreatedRecords ==
  LET ns == Ascending(RecordLines) IN [k \in 1..Len(ns) |-> RecordOfLine(ns[k])]

\* what the caller of parse_clang_tidy_output gets
ReturnedGroups == IF pcParse = "done" THEN json_data ELSE <<>>

\* the records of a list of groups, each with the file of its group
RECURSIVE Flatten(_)
Flatten(groups) ==
  IF groups = <<>> THEN <<>>
  ELSE LET g == Head(groups)
       IN  [k \in 1..Len(g.diagnostics) |->
              [file |-> g.file, message |-> g.diagnostics[k].message]]
           \o Flatten(Tail(groups))

\* the start lines that open a group which gets at least one record
GroupStarts == { OpenedBy(lines, n) : n \in RecordLines }

\* C24: when the scan of an input has ended, the returned groups hold every
\* record created (one per start line of three parts, one per continuation
\* line read while a file is open) exactly once, in order, under the file of
\* the start line that was the last one before it; no returned group is
\* empty, and a bare file marker without continuation gives no group.
C24_NoRecordLostOrDuplicated ==
  pcParse \in {"done", "raised"} =>
    /\ Flatten(ReturnedGroups) = CreatedRecords
    /\ \A i \in 1..Len(ReturnedGroups) : ReturnedGroups[i].diagnostics # <<>>
    /\ Len(ReturnedGroups) = Cardinality(GroupStarts)

\* ------------------------------------------------------------------------
\* Claims about a session of static_analyzer
\* ------------------------------------------------------------------------
BothSelected == ~sess.opts.cppcheck_only /\ ~sess.opts.clang_tidy_only
Invoked(tool) == \E i \in 1..Len(sess.results) : sess.results[i].tool = tool
ToolMissing(m) == m.started /\ m.exit = "tool_unavailable"
RunSucceeded(m) == m.started /\ m.returned /\ m.success

\* C2: with both tools selected, clang-tidy is invoked after cppcheck has
\* finished, and whatever the outcome of cppcheck.
C2_SecondToolAlwaysRuns ==
  /\ []((BothSelected /\ Invoked("clang-tidy"))
          => /\ Len(sess.results) = 2
             /\ sess.results[1].tool = "cppcheck"
             /\ sess.results[2].tool = "clang-tidy")
  /\ [][(BothSelected /\ sess.pc = "cppcheck" /\ sess'.pc # "cppcheck")
          => sess'.pc = "clang_tidy"]_vars
  /\ ((sess.pc = "cppcheck" /\ BothSelected) ~> Invoked("clang-tidy"))

\* cppcheck was missing and clang-tidy ran all the same
C2_Witness ==
  /\ BothSelected
  /\ Len(sess.results) = 2
  /\ ToolMissing(sess.results[1])
  /\ sess.results[2].tool = "clang-tidy"
  /\ sess.results[2].started
  /\ sess.results[2].executed

\* C3: the session fails iff at least one of the analyzers it invoked did
\* not succeed; in particular a missing tool binary makes it fail.
C3_VerdictIsConjunction ==
  sess.pc = "done" =>
    /\ sess.status = 0 <=> \A i \in 1..Len(sess.results) : RunSucceeded(sess.results[i])
    /\ (\E i \in 1..Len(sess.results) : ToolMissing(sess.results[i])) => sess.status # 0

\* cppcheck was missing, clang-tidy succeeded, the session failed
C3_Witness ==
  /\ sess.pc = "done"
  /\ Len(sess.results) = 2
  /\ ToolMissing(sess.results[1])
  /\ RunSucceeded(sess.results[2])
  /\ sess.status = 1

====
